---------------------------- MODULE Spec2Model ----------------------------
(***************************************************************************)
(* The RPC error-handling examples of rpc-error-handler as one state       *)
(* machine over a JavaScript event loop.                                   *)
(*                                                                         *)
(* One example program runs per behaviour (variable flow):                 *)
(*   "contract"  wrapContratMethodWithRetries      (Article.md 479-508)    *)
(*   "init"      initProvider                      (wrappers.js 177-205)   *)
(*   "backup"    main, main-then-backup try/catch  (promiseAll.js 78-114)  *)
(*   "retry1"    retryRPCPromise, first definition (wrappers.js 22-39)     *)
(*   "retry"     retryRPCPromise                   (wrappers.js 119-136)   *)
(*   "delay"     retryRPCPromiseWithDelay          (wrappers.js 155-175)   *)
(*   "any"       main with Promise.any             (promiseAny.js 17-30)   *)
(*   "race"      main with Promise.race            (Article.md 247-273)    *)
(*   "all"       main with Promise.all             (promiseAll.js 8-63)    *)
(*   "init2"     two overlapping initProvider calls (wrappers.js 177-205)  *)
(*                                                                         *)
(* The event loop: a macrotask (a network response, a timer) runs only     *)
(* when the microtask queue jobs is empty; each continuation of an await   *)
(* is one microtask and runs to its next await.                            *)
(***************************************************************************)
EXTENDS Integers, Sequences, FiniteSets, TLC

\* ------------------------------------------------------------------ bounds
MaxEndpoints == 3      \* longest endpoint list explored
MaxRetries == 3        \* largest retriesLeft a caller passes
MaxReqs == 5           \* cap on the requests one behaviour may issue
MaxOverlapEndpoints == 2 \* longest list given to two overlapping calls

\* ------------------------------------------------------- program constants
FollowingDelay == 1000 \* "following retries after 1000ms"

\* ---------------------------------------------------------------- inputs
DEDICATED_NODE_RPC == "DEDICATED_NODE_RPC"
BACKUP_NODE_RPC == "BACKUP_NODE_RPC"
BAD_RPC == "BAD_RPC"
\* what a read past the end of a JavaScript array yields; a provider built
\* from it still issues requests (to the library's default URL)
Undefined == "undefined"

URLs == {DEDICATED_NODE_RPC, BACKUP_NODE_RPC, BAD_RPC}
Targets == URLs \cup {Undefined}

\* how a node answers: every request succeeds, every request fails, either,
\* or the node never answers and its requests stay pending
Behaviours == {"up", "down", "flaky", "hung"}

\* block numbers a node may answer with (0 is falsy in JavaScript)
BlockNumbers == {0, 1}

\* initial delays (ms) a caller passes to retryRPCPromiseWithDelay
Delays == {0, 500, 1000, 2000}

Flows == {"contract", "init", "backup", "retry1", "retry", "delay", "any",
          "race", "all", "init2"}

\* the examples that walk an endpoint list
ListFlows == {"contract", "init", "init2"}

\* the examples that ask every provider at once
ConcurrentFlows == {"any", "race", "all"}

RECURSIVE SeqsUpTo(_, _)
SeqsUpTo(S, n) ==
  IF n = 0 THEN {<<>>}
  ELSE LET shorter == SeqsUpTo(S, n - 1)
       IN  shorter \cup {Append(s, x) : s \in {t \in shorter : Len(t) = n - 1}, x \in S}

VARIABLES
  flow,          \* the example program that runs
  endpoints,     \* allRPCs / endpoints: the ordered endpoint list
  health,        \* how each target answers requests
  reqs,          \* every request issued so far, in order of issue
  order,         \* the requests that have settled, in order of settling
  jobs,          \* the microtask queue
  pc,            \* position of the program's main coroutine
  tryNumber,     \* wrapContratMethodWithRetries' parameter
  retries,       \* initProvider's global retries
  isAlive,       \* initProvider's global isAlive
  ethersProvider,\* initProvider's global ethersProvider (its endpoint)
  mainProvider,  \* main's mainProvider (its endpoint)
  logical,       \* which of main's requests res1..res3 is being made
  retriesLeft,   \* retryRPCPromise's parameter
  delay,         \* retryRPCPromiseWithDelay's parameter
  args,          \* the retriesLeft and delay main passed
  calls,         \* invocations of the retry function so far
  timer,         \* the pending setTimeout of wait(ms): its ms, or -1
  waits,         \* every wait(ms) called so far
  wrapped,       \* prom1, prom2: the promises of the wrapper calls
  cancelled,     \* the caller has given up on the dispatch
  pcs,           \* positions of two overlapping initProvider calls
  results        \* what the caller has received so far

vars == <<flow, endpoints, health, reqs, order, jobs, pc, tryNumber, retries,
          isAlive, ethersProvider, mainProvider, logical, retriesLeft, delay,
          args, calls, timer, waits, wrapped, cancelled, pcs, results>>

\* variables of one example only
contractVars == <<tryNumber>>
initVars == <<retries, isAlive, ethersProvider>>
backupVars == <<mainProvider, logical>>
retryVars == <<retriesLeft, delay, args, calls, timer, waits>>
anyVars == <<wrapped>>
callerVars == <<cancelled>>
init2Vars == <<pcs>>
envVars == <<flow, endpoints, health>>

\* ------------------------------------------------------------ JS helpers
\* list[i] of a JavaScript array (0-based); undefined outside the array
At(list, i) == IF i + 1 \in DOMAIN list THEN list[i + 1] ELSE Undefined

\* JavaScript values of isAlive: the boolean false, or a block number
JSFalse == [t |-> "boolean", v |-> 0]
JSNumber(n) == [t |-> "number", v |-> n]
\* ToBoolean: false and 0 are falsy
Truthy(x) == x.v # 0

NoTimer == -1

Success(r, org) == [kind |-> "Success", req |-> r, n |-> reqs[r].n, err |-> "", origin |-> org]
Failure(r, e) == [kind |-> "Failure", req |-> r, n |-> 0, err |-> e, origin |-> ""]

\* provider.<method>(): one request leaves for the provider's endpoint;
\* lg is the logical request (res1..res3) it is made for
\* idx is the index of the endpoint list the target was read from (-1 when
\* the provider was not built from the list)
NewRequest(to, lg) == [to |-> to, st |-> "pending", n |-> 0, lg |-> lg, idx |-> -1]

\* a request through a provider built from list[i]
ListRequest(list, i, lg) == [NewRequest(At(list, i), lg) EXCEPT !.idx = i]

\* `await promise`: the continuation of coroutine co (0 is the main
\* coroutine, i >= 1 the i-th wrapper call) is queued at once when the promise
\* is already settled, else when it settles (Respond)
Job(co, r) == [co |-> co, req |-> r, kind |-> "req"]
TimerJob(r) == [co |-> 0, req |-> r, kind |-> "timer"]

Pending == {i \in DOMAIN reqs : reqs[i].st = "pending"}

\* the coroutine that awaits request i
Awaiter(i) ==
  IF flow \in ConcurrentFlows THEN i
  ELSE IF flow = "init2" THEN reqs[i].lg
  ELSE 0

\* ------------------------------------------------------------------ Init
Init ==
  /\ flow \in Flows
  /\ endpoints \in SeqsUpTo(URLs, MaxEndpoints)
  /\ flow \notin ListFlows => endpoints = <<DEDICATED_NODE_RPC, BACKUP_NODE_RPC>>
  /\ health \in [Targets -> Behaviours]
  /\ health[BAD_RPC] = "down"
  /\ health[Undefined] \in {"up", "down"}
  /\ flow \notin ListFlows => health[Undefined] = "down"
  /\ flow = "init2" =>
       /\ Len(endpoints) <= MaxOverlapEndpoints
       /\ \A t \in Targets : health[t] # "hung"
       /\ health[Undefined] = "down"
  /\ reqs = <<>>
  /\ order = <<>>
  /\ jobs = <<>>
  /\ pc = "start"
  /\ tryNumber = 0
  /\ retries = 0
  /\ isAlive = JSFalse
  /\ ethersProvider = Undefined
  /\ mainProvider = DEDICATED_NODE_RPC
  /\ logical = 0
  /\ retriesLeft = 0
  /\ delay = 0
  /\ args = [n |-> 0, d |-> 0]
  /\ calls = 0
  /\ timer = NoTimer
  /\ waits = <<>>
  /\ wrapped = <<>>
  /\ cancelled = FALSE
  /\ pcs = <<"start", "start">>
  /\ results = <<>>

\* ------------------------------------------------- the network (macrotask)
\* A pending request settles; the coroutine awaiting it is queued.
Respond(i, ok, n) ==
  /\ jobs = <<>>
  /\ i \in Pending
  /\ health[reqs[i].to] = "up" => ok
  /\ health[reqs[i].to] = "down" => ~ok
  /\ health[reqs[i].to] # "hung"
  /\ ok \/ n = 0
  /\ reqs' = [reqs EXCEPT ![i].st = IF ok THEN "ok" ELSE "err", ![i].n = n]
  /\ order' = Append(order, i)
  /\ jobs' = Append(jobs, Job(Awaiter(i), i))
  /\ UNCHANGED <<envVars, callerVars, init2Vars, pc, contractVars, initVars, backupVars, retryVars, anyVars, results>>

\* --------------------------------------------- wrapContratMethodWithRetries
allRPCs == endpoints

\* catch branch: "if we've already tried all RPC endpoints"
TriedAllRPCs(t) == t > Len(allRPCs) - 1

\* a recursive call that skips an endpoint
NextTryNumber_Skip(t) == t + 2

\* the recursive call passes tryNumber + 1
NextTryNumber(t) == t + 1

\* main() calls wrapContratMethodWithRetries(..., tryNumber = 0): the body
\* runs to `await contract[methodName](...params)`
CallWrapContratMethodWithRetries ==
  /\ flow = "contract" /\ pc = "start"
  /\ tryNumber' = 0
  /\ reqs' = Append(reqs, ListRequest(allRPCs, 0, 1))
  /\ pc' = "await"
  /\ UNCHANGED <<envVars, callerVars, init2Vars, order, jobs, initVars, backupVars, retryVars, anyVars, results>>

\* a body that does not return the data and falls through to the next endpoint
ContractMethodFulfilled_FallsThrough ==
  /\ flow = "contract" /\ pc = "await" /\ jobs # <<>>
  /\ reqs[Head(jobs).req].st = "ok"
  /\ jobs' = Tail(jobs)
  /\ IF TriedAllRPCs(tryNumber)
       THEN /\ results' = Append(results, Success(Head(jobs).req, ""))
            /\ pc' = "done"
            /\ UNCHANGED <<reqs, tryNumber>>
       ELSE /\ tryNumber' = tryNumber + 1
            /\ reqs' = Append(reqs, ListRequest(allRPCs, tryNumber + 1, 1))
            /\ UNCHANGED <<pc, results>>
  /\ UNCHANGED <<envVars, callerVars, init2Vars, order, initVars, backupVars, retryVars, anyVars>>

\* the awaited contract call fulfilled: return data
ContractMethodFulfilled ==
  /\ flow = "contract" /\ pc = "await" /\ jobs # <<>>
  /\ reqs[Head(jobs).req].st = "ok"
  /\ results' = Append(results, Success(Head(jobs).req, ""))
  /\ pc' = "done"
  /\ jobs' = Tail(jobs)
  /\ UNCHANGED <<envVars, callerVars, init2Vars, reqs, order, contractVars, initVars, backupVars, retryVars, anyVars>>

\* a catch branch that keeps the first error and rejects with it at the end
ContractMethodRejected_FirstError ==
  /\ flow = "contract" /\ pc = "await" /\ jobs # <<>>
  /\ reqs[Head(jobs).req].st = "err"
  /\ jobs' = Tail(jobs)
  /\ IF TriedAllRPCs(tryNumber)
       THEN /\ results' = Append(results, Failure(1, "RpcError"))
            /\ pc' = "done"
            /\ UNCHANGED <<reqs, tryNumber>>
       ELSE /\ tryNumber' = NextTryNumber(tryNumber)
            /\ reqs' = Append(reqs, ListRequest(allRPCs, NextTryNumber(tryNumber), 1))
            /\ UNCHANGED <<pc, results>>
  /\ UNCHANGED <<envVars, callerVars, init2Vars, order, initVars, backupVars, retryVars, anyVars>>

\* the awaited contract call rejected: the catch branch
ContractMethodRejected ==
  /\ flow = "contract" /\ pc = "await" /\ jobs # <<>>
  /\ reqs[Head(jobs).req].st = "err"
  /\ jobs' = Tail(jobs)
  /\ IF TriedAllRPCs(tryNumber)
       THEN /\ results' = Append(results, Failure(Head(jobs).req, "RpcError"))
            /\ pc' = "done"
            /\ UNCHANGED <<reqs, tryNumber>>
       ELSE /\ tryNumber' = NextTryNumber(tryNumber)
            /\ reqs' = Append(reqs, ListRequest(allRPCs, NextTryNumber(tryNumber), 1))
            /\ UNCHANGED <<pc, results>>
  /\ UNCHANGED <<envVars, callerVars, init2Vars, order, initVars, backupVars, retryVars, anyVars>>

\* ------------------------------------------------------------ initProvider
\* `if (retries > endpoints.length)`: "All nodes are down!"
AllNodesDown(r) == r > Len(endpoints)

\* One evaluation of `while (!isAlive) { ... }` from its head, with the
\* globals as they are now, up to the next await or the loop's exit.
\* Leaving the loop ends initProvider: the caller then sees the globals,
\* recorded in results (the provider's endpoint, or the console message).
InitProviderLoop(alive, r, lastReq) ==
  IF Truthy(alive)
    THEN /\ results' = Append(results, Success(lastReq, ethersProvider))
         /\ pc' = "done"
         /\ UNCHANGED <<reqs, ethersProvider>>
    ELSE IF AllNodesDown(r)
      THEN /\ results' = Append(results, Failure(lastReq, "All nodes are down!"))
           /\ pc' = "done"
           /\ UNCHANGED <<reqs, ethersProvider>>
      ELSE /\ Len(reqs) < MaxReqs
           /\ ethersProvider' = At(endpoints, r)
           /\ reqs' = Append(reqs, ListRequest(endpoints, r, 1))
           /\ pc' = "await"
           /\ UNCHANGED results

\* initProvider(): reset the globals and enter the loop
CallInitProvider ==
  /\ flow = "init" /\ pc = "start"
  /\ isAlive' = JSFalse
  /\ retries' = 0
  /\ InitProviderLoop(JSFalse, 0, 0)
  /\ UNCHANGED <<envVars, callerVars, init2Vars, order, jobs, contractVars, backupVars, retryVars, anyVars>>

\* `isAlive = await ethersProvider.getBlockNumber()` fulfilled
InitProviderFulfilled ==
  /\ flow = "init" /\ pc = "await" /\ jobs # <<>>
  /\ reqs[Head(jobs).req].st = "ok"
  /\ jobs' = Tail(jobs)
  /\ isAlive' = JSNumber(reqs[Head(jobs).req].n)
  /\ InitProviderLoop(JSNumber(reqs[Head(jobs).req].n), retries, Head(jobs).req)
  /\ UNCHANGED <<envVars, callerVars, init2Vars, order, contractVars, retries, backupVars, retryVars, anyVars>>

\* a catch branch that moves two endpoints on
InitProviderRejected_SkipsOne ==
  /\ flow = "init" /\ pc = "await" /\ jobs # <<>>
  /\ reqs[Head(jobs).req].st = "err"
  /\ jobs' = Tail(jobs)
  /\ retries' = retries + 2
  /\ InitProviderLoop(isAlive, retries + 2, Head(jobs).req)
  /\ UNCHANGED <<envVars, callerVars, init2Vars, order, contractVars, isAlive, backupVars, retryVars, anyVars>>

\* getBlockNumber() rejected: the catch branch, retries++
InitProviderRejected ==
  /\ flow = "init" /\ pc = "await" /\ jobs # <<>>
  /\ reqs[Head(jobs).req].st = "err"
  /\ jobs' = Tail(jobs)
  /\ retries' = retries + 1
  /\ InitProviderLoop(isAlive, retries + 1, Head(jobs).req)
  /\ UNCHANGED <<envVars, callerVars, init2Vars, order, contractVars, isAlive, backupVars, retryVars, anyVars>>

\* ------------------------------------ two overlapping initProvider calls
\* initProvider keeps isAlive, retries and ethersProvider in module-level
\* variables: a second call made while the first one awaits getBlockNumber()
\* works on the same three variables.
Callers == {1, 2}

\* `while (!isAlive) { ... }` from its head for call c, as InitProviderLoop
Init2Loop(c, alive, r, lastReq) ==
  IF Truthy(alive)
    THEN /\ results' = Append(results, Success(lastReq, ethersProvider))
         /\ pcs' = [pcs EXCEPT ![c] = "done"]
         /\ UNCHANGED <<reqs, ethersProvider>>
    ELSE IF AllNodesDown(r)
      THEN /\ results' = Append(results, Failure(lastReq, "All nodes are down!"))
           /\ pcs' = [pcs EXCEPT ![c] = "done"]
           /\ UNCHANGED <<reqs, ethersProvider>>
      ELSE /\ Len(reqs) < MaxReqs
           /\ ethersProvider' = At(endpoints, r)
           /\ reqs' = Append(reqs, ListRequest(endpoints, r, c))
           /\ pcs' = [pcs EXCEPT ![c] = "await"]
           /\ UNCHANGED results

\* call c of initProvider(): the second is made while the first is in flight
Init2Call(c) ==
  /\ flow = "init2" /\ pcs[c] = "start"
  /\ jobs = <<>>
  /\ c = 2 => pcs[1] = "await"
  /\ isAlive' = JSFalse
  /\ retries' = 0
  /\ Init2Loop(c, JSFalse, 0, 0)
  /\ UNCHANGED <<envVars, callerVars, order, jobs, pc, contractVars, backupVars, retryVars, anyVars>>

\* `isAlive = await ethersProvider.getBlockNumber()` fulfilled in call c
Init2Fulfilled(c) ==
  /\ flow = "init2" /\ pcs[c] = "await" /\ jobs # <<>>
  /\ Head(jobs).co = c
  /\ reqs[Head(jobs).req].st = "ok"
  /\ jobs' = Tail(jobs)
  /\ isAlive' = JSNumber(reqs[Head(jobs).req].n)
  /\ Init2Loop(c, JSNumber(reqs[Head(jobs).req].n), retries, Head(jobs).req)
  /\ UNCHANGED <<envVars, callerVars, order, pc, contractVars, retries, backupVars, retryVars, anyVars>>

\* getBlockNumber() rejected in call c: retries++
Init2Rejected(c) ==
  /\ flow = "init2" /\ pcs[c] = "await" /\ jobs # <<>>
  /\ Head(jobs).co = c
  /\ reqs[Head(jobs).req].st = "err"
  /\ jobs' = Tail(jobs)
  /\ retries' = retries + 1
  /\ Init2Loop(c, isAlive, retries + 1, Head(jobs).req)
  /\ UNCHANGED <<envVars, callerVars, order, pc, contractVars, isAlive, backupVars, retryVars, anyVars>>

\* ------------------------------------- main: retry with the backup provider
backupProvider == BACKUP_NODE_RPC

\* res1..res3 = getBlockNumber, getGasPrice, getNetwork
LastLogical == 3

\* the endpoint main gives mainProvider before logical request lg:
\* "force an error" before the second, "fix provider" before the third
MainProviderFor(lg) == IF lg = 2 THEN BAD_RPC ELSE DEDICATED_NODE_RPC

\* after res<logical> is assigned: the next try block, or the end of main
BackupAdvance ==
  IF logical = LastLogical
    THEN /\ pc' = "done"
         /\ UNCHANGED <<reqs, mainProvider, logical>>
    ELSE /\ mainProvider' = MainProviderFor(logical + 1)
         /\ logical' = logical + 1
         /\ reqs' = Append(reqs, NewRequest(MainProviderFor(logical + 1), logical + 1))
         /\ pc' = "main"

\* a main that asks both providers at once
CallBackupMain_Hedged ==
  /\ flow = "backup" /\ pc = "start"
  /\ logical' = 1
  /\ reqs' = <<NewRequest(mainProvider, 1), NewRequest(backupProvider, 1)>>
  /\ pc' = "main"
  /\ UNCHANGED <<envVars, callerVars, init2Vars, order, jobs, contractVars, initVars, mainProvider, retryVars, anyVars, results>>

\* main(): `res1 = await mainProvider.getBlockNumber()`
CallBackupMain ==
  /\ flow = "backup" /\ pc = "start"
  /\ logical' = 1
  /\ reqs' = Append(reqs, NewRequest(mainProvider, 1))
  /\ pc' = "main"
  /\ UNCHANGED <<envVars, callerVars, init2Vars, order, jobs, contractVars, initVars, mainProvider, retryVars, anyVars, results>>

\* the awaited request (main or backup provider) fulfilled
BackupFulfilled ==
  /\ flow = "backup" /\ pc \in {"main", "backup"} /\ jobs # <<>>
  /\ reqs[Head(jobs).req].st = "ok"
  /\ jobs' = Tail(jobs)
  /\ results' = Append(results, Success(Head(jobs).req, ""))
  /\ BackupAdvance
  /\ UNCHANGED <<envVars, callerVars, init2Vars, order, contractVars, initVars, retryVars, anyVars>>

\* an inner catch that neither asks the backup provider nor rethrows
BackupMainRejected_GivesNoAnswer ==
  /\ flow = "backup" /\ pc = "main" /\ jobs # <<>>
  /\ reqs[Head(jobs).req].st = "err"
  /\ jobs' = Tail(jobs)
  /\ UNCHANGED <<envVars, callerVars, init2Vars, reqs, order, pc, contractVars, initVars, backupVars, retryVars, anyVars, results>>

\* the main provider's request rejected: inner catch, ask the backup
BackupMainRejected ==
  /\ flow = "backup" /\ pc = "main" /\ jobs # <<>>
  /\ reqs[Head(jobs).req].st = "err"
  /\ jobs' = Tail(jobs)
  /\ reqs' = Append(reqs, NewRequest(backupProvider, logical))
  /\ pc' = "backup"
  /\ UNCHANGED <<envVars, callerVars, init2Vars, order, contractVars, initVars, backupVars, retryVars, anyVars, results>>

\* a backup request whose rejection is caught where it is made: main goes on
BackupBackupRejected_Continues ==
  /\ flow = "backup" /\ pc = "backup" /\ jobs # <<>>
  /\ reqs[Head(jobs).req].st = "err"
  /\ jobs' = Tail(jobs)
  /\ results' = Append(results, Failure(Head(jobs).req, "RpcError"))
  /\ BackupAdvance
  /\ UNCHANGED <<envVars, callerVars, init2Vars, order, contractVars, initVars, retryVars, anyVars>>

\* the backup provider's request rejected: the outer catch ends main
BackupBackupRejected ==
  /\ flow = "backup" /\ pc = "backup" /\ jobs # <<>>
  /\ reqs[Head(jobs).req].st = "err"
  /\ jobs' = Tail(jobs)
  /\ results' = Append(results, Failure(Head(jobs).req, "RpcError"))
  /\ pc' = "done"
  /\ UNCHANGED <<envVars, callerVars, init2Vars, reqs, order, contractVars, initVars, backupVars, retryVars, anyVars>>

\* ------------------------------- retryRPCPromise, retryRPCPromiseWithDelay
RetryFlows == {"retry1", "retry", "delay"}

\* a base case that gives up with one retry still left
NoRetriesLeft_Early(n) == n <= 1

\* `if (retriesLeft === 0)`
NoRetriesLeft(n) == n = 0

\* the recursive call passes retriesLeft - 1
NextRetriesLeft(n) == n - 1

\* a recursive call that doubles the delay
NextDelay_Doubling(d) == d * 2

\* the recursive call of retryRPCPromiseWithDelay passes 1000
NextDelay(d) == FollowingDelay

\* main(): retryRPCPromise(mainProvider.getBlockNumber(), n) and
\* retryRPCPromiseWithDelay(mainProvider.getBlockNumber(), n, d). The
\* argument is evaluated first: the request is issued by the caller, once,
\* and the function receives its promise and runs to `await promise`.
CallRetryRPCPromise(u, n, d) ==
  /\ flow \in RetryFlows /\ pc = "start"
  /\ flow # "delay" => d = 0
  /\ mainProvider' = u
  /\ reqs' = Append(reqs, NewRequest(u, 1))
  /\ retriesLeft' = n
  /\ delay' = d
  /\ args' = [n |-> n, d |-> d]
  /\ calls' = 1
  /\ pc' = "await"
  /\ UNCHANGED <<envVars, callerVars, init2Vars, order, jobs, contractVars, initVars, logical, timer, waits, anyVars, results>>

\* `const data = await promise` fulfilled: return data
RetryFulfilled ==
  /\ flow \in RetryFlows /\ pc = "await" /\ jobs # <<>>
  /\ Head(jobs).kind = "req"
  /\ reqs[Head(jobs).req].st = "ok"
  /\ jobs' = Tail(jobs)
  /\ results' = Append(results, Success(Head(jobs).req, ""))
  /\ pc' = "done"
  /\ UNCHANGED <<envVars, callerVars, init2Vars, reqs, order, contractVars, initVars, backupVars, retryVars, anyVars>>

\* retryRPCPromise (wrappers.js 119-136), catch branch: reject with the
\* error, or call itself with the same promise, which it awaits again
RetryRejected ==
  /\ flow = "retry" /\ pc = "await" /\ jobs # <<>>
  /\ reqs[Head(jobs).req].st = "err"
  /\ IF NoRetriesLeft(retriesLeft)
       THEN /\ results' = Append(results, Failure(Head(jobs).req, "RpcError"))
            /\ pc' = "done"
            /\ jobs' = Tail(jobs)
            /\ UNCHANGED <<retriesLeft, calls>>
       ELSE /\ retriesLeft' = NextRetriesLeft(retriesLeft)
            /\ calls' = calls + 1
            /\ jobs' = Append(Tail(jobs), Job(0, Head(jobs).req))
            /\ UNCHANGED <<pc, results>>
  /\ UNCHANGED <<envVars, callerVars, init2Vars, reqs, order, contractVars, initVars, backupVars, delay, args, timer, waits, anyVars>>

\* retryRPCPromise, first definition (wrappers.js 22-39), catch branch: the
\* recursive call names retryPromise, which wrappers.js does not define, so
\* evaluating it throws a ReferenceError out of the async function
Retry1Rejected ==
  /\ flow = "retry1" /\ pc = "await" /\ jobs # <<>>
  /\ reqs[Head(jobs).req].st = "err"
  /\ jobs' = Tail(jobs)
  /\ IF NoRetriesLeft(retriesLeft)
       THEN results' = Append(results, Failure(Head(jobs).req, "RpcError"))
       ELSE results' = Append(results, Failure(Head(jobs).req, "ReferenceError"))
  /\ pc' = "done"
  /\ UNCHANGED <<envVars, callerVars, init2Vars, reqs, order, contractVars, initVars, backupVars, retryVars, anyVars>>

\* a catch branch that calls wait(delay) before it looks at retriesLeft
DelayRejected_WaitsFirst ==
  /\ flow = "delay" /\ pc = "await" /\ jobs # <<>>
  /\ Head(jobs).kind = "req"
  /\ reqs[Head(jobs).req].st = "err"
  /\ jobs' = Tail(jobs)
  /\ timer' = delay
  /\ waits' = Append(waits, delay)
  /\ IF NoRetriesLeft(retriesLeft)
       THEN /\ results' = Append(results, Failure(Head(jobs).req, "RpcError"))
            /\ pc' = "done"
       ELSE /\ pc' = "wait"
            /\ UNCHANGED results
  /\ UNCHANGED <<envVars, callerVars, init2Vars, reqs, order, contractVars, initVars, backupVars, retriesLeft, delay, args, calls, anyVars>>

\* retryRPCPromiseWithDelay, catch branch: reject with the error, or
\* `await wait(delay)`: setTimeout(resolve, delay)
DelayRejected ==
  /\ flow = "delay" /\ pc = "await" /\ jobs # <<>>
  /\ Head(jobs).kind = "req"
  /\ reqs[Head(jobs).req].st = "err"
  /\ jobs' = Tail(jobs)
  /\ IF NoRetriesLeft(retriesLeft)
       THEN /\ results' = Append(results, Failure(Head(jobs).req, "RpcError"))
            /\ pc' = "done"
            /\ UNCHANGED <<timer, waits>>
       ELSE /\ timer' = delay
            /\ waits' = Append(waits, delay)
            /\ pc' = "wait"
            /\ UNCHANGED results
  /\ UNCHANGED <<envVars, callerVars, init2Vars, reqs, order, contractVars, initVars, backupVars, retriesLeft, delay, args, calls, anyVars>>

\* a wait whose timer is cleared once the caller has given up
TimerFires_Cancellable ==
  /\ jobs = <<>>
  /\ timer # NoTimer
  /\ timer' = NoTimer
  /\ IF cancelled
       THEN /\ results' = Append(results, Failure(1, "CancelledError"))
            /\ pc' = "done"
            /\ UNCHANGED jobs
       ELSE /\ jobs' = Append(jobs, TimerJob(1))
            /\ UNCHANGED <<pc, results>>
  /\ UNCHANGED <<envVars, callerVars, init2Vars, reqs, order, contractVars, initVars, backupVars, retriesLeft, delay, args, calls, waits, anyVars>>

\* the timer of wait(ms) fires (macrotask): resolve()
TimerFires ==
  /\ jobs = <<>>
  /\ timer # NoTimer
  /\ timer' = NoTimer
  /\ jobs' = Append(jobs, TimerJob(1))
  /\ UNCHANGED <<envVars, callerVars, init2Vars, reqs, order, pc, contractVars, initVars, backupVars, retriesLeft, delay, args, calls, waits, anyVars, results>>

\* after `await wait(delay)`: the recursive call with retriesLeft - 1 and
\* 1000, which awaits the same promise again
DelayAfterWait ==
  /\ flow = "delay" /\ pc = "wait" /\ jobs # <<>>
  /\ Head(jobs).kind = "timer"
  /\ retriesLeft' = NextRetriesLeft(retriesLeft)
  /\ delay' = NextDelay(delay)
  /\ calls' = calls + 1
  /\ jobs' = Append(Tail(jobs), Job(0, Head(jobs).req))
  /\ pc' = "await"
  /\ UNCHANGED <<envVars, callerVars, init2Vars, reqs, order, contractVars, initVars, backupVars, args, timer, waits, anyVars, results>>

\* The caller gives up while retryRPCPromiseWithDelay waits. wait(ms) hands
\* out no handle on its timer and the function takes no signal: nothing of
\* the dispatch changes.
CallerGivesUp ==
  /\ flow = "delay" /\ pc = "wait"
  /\ jobs = <<>>
  /\ timer # NoTimer
  /\ ~cancelled
  /\ cancelled' = TRUE
  /\ UNCHANGED <<envVars, init2Vars, reqs, order, jobs, pc, contractVars, initVars, backupVars, retryVars, anyVars, results>>

\* ------------------------------------------------- main with Promise.any
\* the providers of promiseAny.js, in the order their requests are wrapped
Providers == <<DEDICATED_NODE_RPC, BACKUP_NODE_RPC>>

PendingPromise == [st |-> "pending", req |-> 0, origin |-> "", error |-> ""]

\* a wrapper that swallows the error, as wrapRPCPromise does
WrapRPCPromiseWithReject_Swallows(r, origin) ==
  [st |-> "fulfilled", req |-> r, origin |-> IF reqs[r].st = "ok" THEN origin ELSE "", error |-> ""]

\* wrapRPCPromiseWithReject(promise, origin) once `await promise` settles:
\* { result: data, origin } or Promise.reject(error)
WrapRPCPromiseWithReject(r, origin) ==
  IF reqs[r].st = "ok"
    THEN [st |-> "fulfilled", req |-> r, origin |-> origin, error |-> ""]
    ELSE [st |-> "rejected", req |-> r, origin |-> "", error |-> "RpcError"]

\* Promise.any(proms) as its inputs settle: fulfilled with the first
\* fulfilment, rejected (AggregateError) once every input has rejected
PromiseAny(proms, settled) ==
  IF proms[settled].st = "fulfilled"
    THEN <<Success(proms[settled].req, proms[settled].origin)>>
    ELSE IF \A j \in DOMAIN proms : proms[j].st = "rejected"
      THEN <<Failure(0, "AggregateError")>>
      ELSE <<>>

\* a main that asks the main provider only
CallPromiseAny_MainOnly ==
  /\ flow = "any" /\ pc = "start"
  /\ reqs' = <<NewRequest(Providers[1], 1)>>
  /\ wrapped' = <<PendingPromise>>
  /\ pc' = "await"
  /\ UNCHANGED <<envVars, callerVars, init2Vars, order, jobs, contractVars, initVars, backupVars, retryVars, results>>

\* main(): both requests are issued and wrapped, then
\* `res1 = await Promise.any([prom1, prom2])`
CallPromiseAny ==
  /\ flow = "any" /\ pc = "start"
  /\ reqs' = [i \in DOMAIN Providers |-> NewRequest(Providers[i], 1)]
  /\ wrapped' = [i \in DOMAIN Providers |-> PendingPromise]
  /\ pc' = "await"
  /\ UNCHANGED <<envVars, callerVars, init2Vars, order, jobs, contractVars, initVars, backupVars, retryVars, results>>

\* the continuation of the i-th wrapper call; the reactions of Promise.any
\* and of main's await are the microtasks that follow it
WrapperSettles ==
  /\ flow = "any" /\ jobs # <<>>
  /\ LET i == Head(jobs).co
         proms == [wrapped EXCEPT ![i] = WrapRPCPromiseWithReject(Head(jobs).req, Providers[i])]
     IN  /\ wrapped' = proms
         /\ IF pc = "await" /\ PromiseAny(proms, i) # <<>>
              THEN /\ results' = PromiseAny(proms, i)
                   /\ pc' = "done"
              ELSE UNCHANGED <<pc, results>>
  /\ jobs' = Tail(jobs)
  /\ UNCHANGED <<envVars, callerVars, init2Vars, reqs, order, contractVars, initVars, backupVars, retryVars>>

\* ------------------------------------- main with Promise.race, Promise.all
OpsError == "Ops, there was an issue"

\* the value `new Error('Ops, there was an issue')`: it names no request
ErrorValue == [kind |-> "Error", req |-> 0, n |-> 0, err |-> OpsError, origin |-> ""]

\* a wrapper that rejects, as wrapRPCPromiseWithReject does
WrapRPCPromise_Rejects(r, origin) ==
  IF reqs[r].st = "ok"
    THEN [st |-> "fulfilled", req |-> r, origin |-> origin, error |-> ""]
    ELSE [st |-> "rejected", req |-> r, origin |-> "", error |-> "RpcError"]

\* wrapRPCPromise(promise, origin) once `await promise` settles:
\* { result: data, origin }, or the catch branch's `return new Error(...)`,
\* which fulfils the wrapper's promise with the Error value
WrapRPCPromise(r, origin) ==
  IF reqs[r].st = "ok"
    THEN [st |-> "fulfilled", req |-> r, origin |-> origin, error |-> ""]
    ELSE [st |-> "fulfilled", req |-> 0, origin |-> "", error |-> OpsError]

\* what a settled wrapper promise hands to whoever awaits it
Outcome(prom) ==
  IF prom.st = "rejected" THEN Failure(prom.req, prom.error)
  ELSE IF prom.error # "" THEN ErrorValue
  ELSE Success(prom.req, prom.origin)

\* a wrapper call that reports the main provider's URL for every promise
PendingCall_MainUrl(origin) == [PendingPromise EXCEPT !.origin = mainProvider]

\* the wrapper call: `origin` is evaluated when the wrapper is called
PendingCall(origin) == [PendingPromise EXCEPT !.origin = origin]

\* a race that skips rejections and Error values, as Promise.any skips rejections
PromiseRace_FirstSuccess(proms, settled) ==
  IF proms[settled].st = "fulfilled" /\ proms[settled].error = ""
    THEN <<Outcome(proms[settled])>>
    ELSE IF \A j \in DOMAIN proms : proms[j].st # "pending"
      THEN <<Outcome(proms[settled])>>
      ELSE <<>>

\* Promise.race(proms) when input `settled` settles: it settles the same way
PromiseRace(proms, settled) == <<Outcome(proms[settled])>>

\* main() of the Promise.race example: both requests are issued and wrapped,
\* then `res1 = await Promise.race([prom1, prom2])`
CallPromiseRace ==
  /\ flow = "race" /\ pc = "start"
  /\ logical' = 1
  /\ reqs' = [i \in DOMAIN Providers |-> NewRequest(Providers[i], 1)]
  /\ wrapped' = [i \in DOMAIN Providers |-> PendingCall(Providers[i])]
  /\ pc' = "await"
  /\ UNCHANGED <<envVars, callerVars, init2Vars, order, jobs, contractVars, initVars, mainProvider, retryVars, results>>

\* the continuation of the i-th wrapper call; the reactions of Promise.race
\* and of main's await are the microtasks that follow it
RaceWrapperSettles ==
  /\ flow = "race" /\ jobs # <<>>
  /\ LET i == Head(jobs).co
         proms == [wrapped EXCEPT ![i] = WrapRPCPromise(Head(jobs).req, wrapped[i].origin)]
     IN  /\ wrapped' = proms
         /\ IF pc = "await" /\ PromiseRace(proms, i) # <<>>
              THEN /\ results' = PromiseRace(proms, i)
                   /\ pc' = "done"
              ELSE UNCHANGED <<pc, results>>
  /\ jobs' = Tail(jobs)
  /\ UNCHANGED <<envVars, callerVars, init2Vars, reqs, order, contractVars, initVars, backupVars, retryVars>>

\* prom1 wraps the main provider's request and prom2 the backup provider's:
\* the wrapper calls of logical request lg are 2 lg - 1 and 2 lg
Prom1(lg) == 2 * lg - 1
Prom2(lg) == 2 * lg

\* the array main passes to Promise.all: [prom1, prom2] for res1,
\* [prom2, prom1] for res2 and res3
PassedToAll(lg) == IF lg = 1 THEN <<Prom1(lg), Prom2(lg)>> ELSE <<Prom2(lg), Prom1(lg)>>

\* Promise.all(passed) as its inputs settle: rejected with the first
\* rejection, fulfilled with the array of values, in the order passed, once
\* every input has fulfilled; <<>> while it is pending
PromiseAll(proms, passed, settled) ==
  IF proms[settled].st = "rejected"
    THEN <<Outcome(proms[settled])>>
    ELSE IF \A k \in DOMAIN passed : proms[passed[k]].st = "fulfilled"
      THEN <<[k \in DOMAIN passed |-> Outcome(proms[passed[k]])]>>
      ELSE <<>>

\* the two wrapped requests of logical request lg, after mainProvider was
\* given endpoint u
AllIssue(lg, u) ==
  /\ mainProvider' = u
  /\ logical' = lg
  /\ reqs' = reqs \o <<NewRequest(u, lg), NewRequest(backupProvider, lg)>>
  /\ wrapped' = wrapped \o <<PendingCall(u), PendingCall(backupProvider)>>

\* main() of promiseAll.js: `res1 = await Promise.all([prom1, prom2])`
CallPromiseAll ==
  /\ flow = "all" /\ pc = "start"
  /\ AllIssue(1, MainProviderFor(1))
  /\ pc' = "await"
  /\ UNCHANGED <<envVars, callerVars, init2Vars, order, jobs, contractVars, initVars, retryVars, results>>

\* the continuation of a wrapper call; when it settles Promise.all, main
\* stores the array (a rejection is caught and logged: res stays undefined,
\* shown as <<>>) and goes on to its next request
AllWrapperSettles ==
  /\ flow = "all" /\ jobs # <<>>
  /\ jobs' = Tail(jobs)
  /\ LET i == Head(jobs).co
         proms == [wrapped EXCEPT ![i] = WrapRPCPromise(Head(jobs).req, wrapped[i].origin)]
         all == PromiseAll(proms, PassedToAll(logical), i)
     IN  IF pc = "await" /\ reqs[i].lg = logical /\ all # <<>>
           THEN /\ results' = Append(results, IF proms[i].st = "rejected" THEN <<>> ELSE all[1])
                /\ IF logical = LastLogical
                     THEN /\ pc' = "done"
                          /\ wrapped' = proms
                          /\ UNCHANGED <<reqs, mainProvider, logical>>
                     ELSE /\ mainProvider' = MainProviderFor(logical + 1)
                          /\ logical' = logical + 1
                          /\ reqs' = reqs \o <<NewRequest(MainProviderFor(logical + 1), logical + 1),
                                               NewRequest(backupProvider, logical + 1)>>
                          /\ wrapped' = proms \o <<PendingCall(MainProviderFor(logical + 1)),
                                                   PendingCall(backupProvider)>>
                          /\ UNCHANGED pc
           ELSE /\ wrapped' = proms
                /\ UNCHANGED <<pc, results, reqs, mainProvider, logical>>
  /\ UNCHANGED <<envVars, callerVars, init2Vars, order, contractVars, initVars, retryVars>>

\* ------------------------------------------------------------------ Next
NetworkResponds ==
  \E i \in DOMAIN reqs, ok \in BOOLEAN, n \in BlockNumbers : Respond(i, ok, n)

InitProviderCalled == \E c \in Callers : Init2Call(c)
InitProviderResumesFulfilled == \E c \in Callers : Init2Fulfilled(c)
InitProviderResumesRejected == \E c \in Callers : Init2Rejected(c)

MainCallsRetry ==
  \E u \in URLs, n \in 0..MaxRetries, d \in Delays : CallRetryRPCPromise(u, n, d)

Next ==
  \/ NetworkResponds
  \/ TimerFires
  \/ CallWrapContratMethodWithRetries
  \/ ContractMethodFulfilled
  \/ ContractMethodRejected
  \/ CallInitProvider
  \/ InitProviderFulfilled
  \/ InitProviderRejected
  \/ InitProviderCalled
  \/ InitProviderResumesFulfilled
  \/ InitProviderResumesRejected
  \/ CallBackupMain
  \/ BackupFulfilled
  \/ BackupMainRejected
  \/ BackupBackupRejected
  \/ MainCallsRetry
  \/ RetryFulfilled
  \/ RetryRejected
  \/ Retry1Rejected
  \/ DelayRejected
  \/ DelayAfterWait
  \/ CallerGivesUp
  \/ CallPromiseAny
  \/ WrapperSettles
  \/ CallPromiseRace
  \/ RaceWrapperSettles
  \/ CallPromiseAll
  \/ AllWrapperSettles

Spec == Init /\ [][Next]_vars

\* ------------------------------------------------- the fallback dispatches
\* wrapContratMethodWithRetries and the main-then-backup example under a
\* fair event loop: a queued continuation runs, and a request to an endpoint
\* that answers at all is answered. A request to an endpoint that never
\* answers stays pending: no step is enabled for it.
DispatchFlows == {"contract", "backup"}

InitDispatch == Init /\ flow \in DispatchFlows

NextDispatch ==
  \/ NetworkResponds
  \/ CallWrapContratMethodWithRetries
  \/ ContractMethodFulfilled
  \/ ContractMethodRejected
  \/ CallBackupMain
  \/ BackupFulfilled
  \/ BackupMainRejected
  \/ BackupBackupRejected

FairSpec == InitDispatch /\ [][NextDispatch]_vars /\ WF_vars(NextDispatch)

\* --------------------------------------------------- the retry functions
\* retryRPCPromise (wrappers.js 119-136) and retryRPCPromiseWithDelay under a
\* fair event loop: a queued continuation runs, an armed timer fires, and a
\* request to an endpoint that answers at all is answered.
RecursiveRetryFlows == {"retry", "delay"}

InitRetry == Init /\ flow \in RecursiveRetryFlows

NextRetry ==
  \/ NetworkResponds
  \/ TimerFires
  \/ MainCallsRetry
  \/ RetryFulfilled
  \/ RetryRejected
  \/ DelayRejected
  \/ DelayAfterWait
  \/ CallerGivesUp

FairRetrySpec == InitRetry /\ [][NextRetry]_vars /\ WF_vars(NextRetry)

\* ================================================================ claims
\* the requests made for logical request lg, in order of issue
ReqsOf(lg) == {i \in DOMAIN reqs : reqs[i].lg = lg}
FirstReqOf(lg) == CHOOSE i \in ReqsOf(lg) : \A j \in ReqsOf(lg) : i <= j

\* the endpoints attempted so far, in order
Attempted == [i \in DOMAIN reqs |-> reqs[i].to]

\* the caller's result for logical request lg has been delivered
Delivered(lg) == Len(results) >= lg

\* every endpoint of the list fails every request
AllDown == \A j \in DOMAIN endpoints : health[endpoints[j]] = "down"

\* C1: in the sequential fallback (wrapContratMethodWithRetries over a
\* non-empty list, main-then-backup), when the request to the first endpoint
\* succeeds, the caller receives that request's value as a success, and no
\* request goes to a later endpoint and nothing is retried.
C1_FirstEndpointSucceeds ==
  (flow \in {"contract", "backup"} /\ endpoints # <<>>) =>
    \A lg \in 1..LastLogical :
      (ReqsOf(lg) # {} /\ reqs[FirstReqOf(lg)].st = "ok") =>
         /\ ReqsOf(lg) = {FirstReqOf(lg)}
         /\ reqs[FirstReqOf(lg)].to = (IF flow = "contract" THEN endpoints[1] ELSE MainProviderFor(lg))
         /\ jobs = <<>> =>
              /\ Delivered(lg)
              /\ results[lg].kind = "Success"
              /\ results[lg].req = FirstReqOf(lg)
              /\ results[lg].n = reqs[FirstReqOf(lg)].n

C1_Witness ==
  /\ flow = "contract" /\ Len(endpoints) >= 2 /\ pc = "done"
  /\ reqs[1].st = "ok" /\ reqs[1].n = 1
  /\ results[1].kind = "Success"

\* C2: when the endpoints 0..k-1 of the list always fail and endpoint k
\* (k < N) succeeds, wrapContratMethodWithRetries returns the value of the
\* request to endpoint k as a success after exactly k + 1 attempts, one per
\* endpoint 0..k in order.
C2_FallbackReachesK ==
  (flow = "contract" /\ pc = "done") =>
    \A k \in 0..(Len(endpoints) - 1) :
      ( /\ \A j \in 1..k : health[endpoints[j]] = "down"
        /\ health[endpoints[k + 1]] = "up" ) =>
          /\ Len(reqs) = k + 1
          /\ Attempted = SubSeq(endpoints, 1, k + 1)
          /\ results = <<[kind |-> "Success", req |-> k + 1, n |-> reqs[k + 1].n,
                          err |-> "", origin |-> ""]>>

C2_Witness ==
  /\ flow = "contract" /\ pc = "done" /\ Len(endpoints) = 3
  /\ health[endpoints[1]] = "down" /\ health[endpoints[2]] = "down"
  /\ health[endpoints[3]] = "up"
  /\ Len(reqs) = 3 /\ results[1].kind = "Success"

\* C3: when every endpoint of a non-empty list always fails, the fallback
\* ends in a failure, and the endpoints attempted are exactly the list, in
\* order, each once, with no attempt beyond the list.
C3_AllFailTriesListOnce ==
  (flow \in {"contract", "init"} /\ endpoints # <<>> /\ AllDown /\ pc = "done") =>
     /\ results[1].kind = "Failure"
     /\ Attempted = endpoints

\* C4: a retry sends the request again: against an endpoint that always
\* fails, retryRPCPromise(request, n) and retryRPCPromiseWithDelay(request,
\* n, d) have issued n + 1 requests by the time they reject.
C4_RetryResendsRequest ==
  (flow \in {"retry", "delay"} /\ pc = "done" /\ health[mainProvider] = "down") =>
     Len(reqs) = args.n + 1

\* C5: retryRPCPromise(promise, n), either definition: when the request
\* fulfils it returns the value without a retry; when it rejects it retries
\* n times and then rejects with the request's own error, never another.
C5_RetryRejectsWithRequestError ==
  (flow \in {"retry1", "retry"} /\ pc = "done") =>
     /\ reqs[1].st = "ok" =>
          /\ results = <<[kind |-> "Success", req |-> 1, n |-> reqs[1].n, err |-> "", origin |-> ""]>>
          /\ calls = 1
     /\ reqs[1].st = "err" =>
          /\ results = <<[kind |-> "Failure", req |-> 1, n |-> 0, err |-> "RpcError", origin |-> ""]>>
          /\ calls = args.n + 1

\* C6: with retriesLeft = 0 and a request that fails, the retry functions
\* reject after exactly one attempt: wait is never called, no timer is set
\* and the function does not call itself.
C6_ZeroRetriesOneAttempt ==
  (flow \in RetryFlows /\ pc # "start" /\ args.n = 0) =>
     /\ waits = <<>> /\ timer = NoTimer
     /\ calls = 1 /\ Len(reqs) = 1
     /\ (reqs[1].st = "err" /\ jobs = <<>>) =>
          /\ pc = "done"
          /\ results = <<[kind |-> "Failure", req |-> 1, n |-> 0, err |-> "RpcError", origin |-> ""]>>

C6_Witness ==
  /\ flow = "delay" /\ pc = "done" /\ args.n = 0 /\ args.d = 500
  /\ reqs[1].st = "err" /\ results[1].kind = "Failure"

NonDecreasing(w) == \A i \in 1..(Len(w) - 1) : w[i] <= w[i + 1]
Max(a, b) == IF a >= b THEN a ELSE b

\* C7 as stated: for every initial delay, the delays waited before
\* successive retries never decrease from one retry to the next.
C7_DelaysNeverDecrease ==
  flow = "delay" => NonDecreasing(waits)

\* C7 as amended: the delay before the first retry is the caller's initial
\* delay d and the delay before every later retry is 1000 ms; the delays
\* never decrease when d <= 1000, and none exceeds the larger of d and 1000.
C7_DelaysAmended ==
  flow = "delay" =>
     /\ \A i \in DOMAIN waits : waits[i] = (IF i = 1 THEN args.d ELSE FollowingDelay)
     /\ \A i \in DOMAIN waits : waits[i] <= Max(args.d, FollowingDelay)
     /\ args.d <= FollowingDelay => NonDecreasing(waits)

C7_Witness ==
  /\ flow = "delay" /\ args.d = 500 /\ Len(waits) = 3
  /\ waits[1] < waits[2]

\* C8: a dispatch over an empty endpoint list fails with a
\* ConfigurationError before any request is made.
C8_EmptyListNoRequest ==
  (flow \in {"contract", "init"} /\ endpoints = <<>>) =>
     /\ reqs = <<>>
     /\ pc = "done" => (results # <<>> /\ results[1].err = "ConfigurationError")

SequentialFlows == Flows \ (ConcurrentFlows \cup {"init2"})

\* C9: in the sequential fallback and retry flows at most one request is
\* outstanding at any time; a request to the next endpoint is issued only
\* after the previous request of the same dispatch has settled as failed.
C9_OneOutstandingRequest ==
  flow \in SequentialFlows =>
     /\ Cardinality(Pending) <= 1
     /\ \A i \in DOMAIN reqs : i > 1 => reqs[i - 1].st # "pending"
     /\ flow \in {"contract", "backup"} =>
          \A i \in DOMAIN reqs :
             (i > 1 /\ reqs[i - 1].lg = reqs[i].lg) => reqs[i - 1].st = "err"

C9_Witness ==
  /\ flow = "backup" /\ Len(reqs) = 2
  /\ reqs[1].st = "err" /\ reqs[2].st = "pending"
  /\ reqs[2].to = backupProvider

\* the requests that fulfilled, and the first of them to settle
Fulfilled == {i \in DOMAIN order : reqs[order[i]].st = "ok"}
FirstFulfilled == order[CHOOSE i \in Fulfilled : \A j \in Fulfilled : i <= j]

\* C10: Promise.any over wrapRPCPromiseWithReject, in every order of
\* completion: the result is the { result, origin } of the first request to
\* succeed, failures of the other endpoint are ignored, and the result is a
\* failure only when every request has failed.
C10_FirstSuccessWins ==
  (flow = "any" /\ pc # "start" /\ jobs = <<>>) =>
     IF Fulfilled # {}
       THEN /\ pc = "done"
            /\ results = <<[kind |-> "Success", req |-> FirstFulfilled,
                            n |-> reqs[FirstFulfilled].n, err |-> "",
                            origin |-> reqs[FirstFulfilled].to]>>
       ELSE IF Pending = {}
         THEN pc = "done" /\ results # <<>> /\ results[1].kind = "Failure"
         ELSE pc = "await" /\ results = <<>>

C10_Witness ==
  /\ flow = "any" /\ pc = "done" /\ jobs = <<>>
  /\ order = <<2, 1>> /\ reqs[2].st = "err" /\ reqs[1].st = "ok"
  /\ results[1].kind = "Success" /\ results[1].origin = DEDICATED_NODE_RPC


\* what wrapRPCPromise hands over for request r: the value with the endpoint
\* the request went to, or the Error value
Expected(r) == IF reqs[r].st = "ok" THEN Success(r, reqs[r].to) ELSE ErrorValue

\* C11: Promise.race over the wrapped requests completes with the outcome of
\* whichever request completes first: that request's value and endpoint when
\* it succeeded, the error when it failed, whatever the other request does;
\* nothing is delivered before a request has completed.
C11_RaceFirstSettledWins ==
  flow = "race" =>
    /\ (pc = "done") = (order # <<>> /\ (jobs = <<>> \/ Len(order) > 1))
    /\ pc = "done" => results = <<Expected(order[1])>>
    /\ pc # "done" => results = <<>>

\* the fast endpoint failed and the slow one answered well: the error is
\* what main received
C11_Witness ==
  /\ flow = "race" /\ pc = "done"
  /\ Len(order) = 2
  /\ reqs[order[1]].st = "err" /\ reqs[order[2]].st = "ok"
  /\ results[1].kind = "Error"

\* the requests behind the array main passes to Promise.all for logical
\* request lg: the main provider's request is the first issued for lg
MainReq(lg) == FirstReqOf(lg)
BackupReq(lg) == FirstReqOf(lg) + 1
RequestsPassed(lg) ==
  IF lg = 1 THEN <<MainReq(lg), BackupReq(lg)>> ELSE <<BackupReq(lg), MainReq(lg)>>

\* C12: Promise.all over wrapRPCPromise calls never rejects; it completes
\* only after every request has settled, with one outcome per endpoint in the
\* order the wrapped requests were passed, each the value with its endpoint
\* or the Error value.
C12_WaitAllOneOutcomeEach ==
  flow = "all" =>
    /\ \A lg \in 1..Len(results) :
         /\ results[lg] # <<>>
         /\ \A r \in ReqsOf(lg) : reqs[r].st # "pending"
         /\ results[lg] = [k \in 1..2 |-> Expected(RequestsPassed(lg)[k])]
    /\ \A w \in DOMAIN wrapped : wrapped[w].st # "rejected"
    /\ pc = "await" => Len(results) = logical - 1

\* res2: the main provider's request (bad endpoint) failed, the backup's
\* succeeded; the array holds the backup's value first, then the Error value
C12_Witness ==
  /\ flow = "all" /\ Len(results) >= 2
  /\ reqs[MainReq(2)].st = "err" /\ reqs[BackupReq(2)].st = "ok"
  /\ results[2][1].origin = BACKUP_NODE_RPC
  /\ results[2][2] = ErrorValue

\* C13 as stated: a dispatch cancelled during a retry delay completes with
\* CancelledError and makes no further attempt.
C13_CancelYieldsCancelledError ==
  (flow = "delay" /\ cancelled /\ pc = "done") =>
    results = <<Failure(1, "CancelledError")>>

\* C13 amended: giving up during a retry delay changes nothing. The timer
\* stays armed, the wait ends, the remaining attempts and waits follow, and
\* the dispatch completes as it would have: with the request's value or,
\* after args.n waits and args.n + 1 attempts, with the request's error.
\* No outcome is a CancelledError.
C13_CancelHasNoEffect ==
  flow = "delay" =>
    /\ \A k \in DOMAIN results : results[k].err # "CancelledError"
    /\ (cancelled /\ pc = "wait") => (timer # NoTimer \/ jobs # <<>>)
    /\ (cancelled /\ pc = "done") =>
         /\ results = <<Failure(1, "RpcError")>>
         /\ calls = args.n + 1
         /\ Len(waits) = args.n

\* the caller gave up during a wait of a dispatch with two retries; every
\* attempt ran all the same
C13_Witness ==
  /\ flow = "delay" /\ cancelled /\ pc = "done"
  /\ args.n = 2 /\ calls = 3
  /\ results = <<Failure(1, "RpcError")>>

\* every outcome the caller has received: the elements of the arrays of
\* Promise.all, the values and errors of the other examples
Outcomes ==
  IF flow = "all"
    THEN UNION {{results[lg][k] : k \in DOMAIN results[lg]} : lg \in DOMAIN results}
    ELSE {results[k] : k \in DOMAIN results}

\* the examples whose dispatch goes through wrapRPCPromise or
\* wrapRPCPromiseWithReject, and those that return the bare value
WrapperFlows == ConcurrentFlows
BareFlows == {"contract", "backup", "retry1", "retry", "delay"}

EndpointsReported(o) == <<>>

\* a dispatch that has ended in failure with every attempt failed
Exhausted ==
  /\ flow \in {"contract", "retry"} /\ pc = "done"
  /\ results[1].kind = "Failure"

\* C15 as stated: on exhaustion the failure carries the error of the last
\* failed attempt together with the full list of endpoints tried.
C15_FailureListsEndpoints ==
  Exhausted =>
    /\ results[1].req = Len(reqs)
    /\ EndpointsReported(results[1]) = Attempted

\* C15 amended: on exhaustion the failure is the error of the last failed
\* attempt and nothing else: every attempt has failed, the caller receives
\* the error of the last request issued, and no list of endpoints.
C15_FailureIsLastError ==
  Exhausted =>
    /\ \A r \in DOMAIN reqs : reqs[r].st = "err"
    /\ results = <<Failure(Len(reqs), "RpcError")>>
    /\ EndpointsReported(results[1]) = <<>>
    /\ Attempted # <<>>

\* three attempts failed; the failure is the third one's error
C15_Witness ==
  /\ flow = "contract" /\ Exhausted
  /\ Len(reqs) = 3
  /\ results[1].req = 3

\* the requests call c of initProvider has issued, in order of issue
RECURSIVE SelectSeq2(_, _)
SelectSeq2(c, k) ==
  IF k = 0 THEN <<>>
  ELSE IF reqs[k].lg = c THEN Append(SelectSeq2(c, k - 1), k)
  ELSE SelectSeq2(c, k - 1)
IssuedBy(c) == SelectSeq2(c, Len(reqs))

\* C16: two initProvider calls that overlap each own their attempt counter:
\* each starts at index 0 of the list and moves to the next index exactly
\* when its own attempt fails, as a call running alone does.
C16_DispatchesIndependent ==
  flow = "init2" =>
    \A c \in Callers :
      LET rs == IssuedBy(c)
      IN  /\ rs # <<>> => reqs[rs[1]].idx = 0
          /\ \A k \in 1..(Len(rs) - 1) :
               reqs[rs[k + 1]].idx =
                 reqs[rs[k]].idx + (IF reqs[rs[k]].st = "err" THEN 1 ELSE 0)

\* the dispatch awaits a request to an endpoint that never answers
WaitsOnSilentEndpoint ==
  /\ pc # "done" /\ jobs = <<>>
  /\ \E i \in Pending : health[reqs[i].to] = "hung"

WalkFlows == {"contract", "init"}

\* C18: wrapContratMethodWithRetries and initProvider try the endpoints
\* strictly in list order: the first attempt reads index 0, an attempt that
\* follows a failed one reads the next index, and no attempt reads a smaller
\* index than the one before it or skips one. (initProvider asks the same
\* index again after an answer that leaves isAlive falsy.)
C18_TriedInListOrder ==
  flow \in WalkFlows =>
    /\ \A k \in DOMAIN reqs :
         /\ reqs[k].to = At(endpoints, reqs[k].idx)
         /\ k = 1 => reqs[k].idx = 0
         /\ k > 1 =>
              reqs[k].idx =
                reqs[k - 1].idx + (IF reqs[k - 1].st = "err" THEN 1 ELSE 0)
    /\ reqs # <<>> =>
         reqs[Len(reqs)].idx <= (IF flow = "contract" THEN tryNumber ELSE retries)

\* endpoints 0 and 1 failed in turn and endpoint 2 was asked
C18_Witness ==
  /\ flow \in WalkFlows /\ Len(endpoints) = 3
  /\ Len(reqs) = 3
  /\ reqs[1].st = "err" /\ reqs[2].st = "err"
  /\ <<reqs[1].idx, reqs[2].idx, reqs[3].idx>> = <<0, 1, 2>>

\* C19: every attempt of wrapContratMethodWithRetries and initProvider reads
\* the endpoint list at an index inside it, 0 <= index <= length - 1 (stated
\* here for the non-empty lists).
C19_IndexInsideList ==
  (flow \in WalkFlows /\ endpoints # <<>>) =>
    \A k \in DOMAIN reqs :
      0 <= reqs[k].idx /\ reqs[k].idx <= Len(endpoints) - 1

\* the waits retryRPCPromiseWithDelay(p, n, d) makes when p always rejects
ExpectedWaits(n, d) == [k \in 1..n |-> IF k = 1 THEN d ELSE 1000]

\* C20: retryRPCPromiseWithDelay(p, n, d) with a rejected p waits before
\* every retry and only then: no wait before the first attempt, one wait
\* between consecutive attempts, the first of d ms and the later ones of
\* 1000 ms, exactly n waits when it rejects, and no timer left after that.
C20_WaitsBeforeRetriesOnly ==
  (flow = "delay" /\ reqs # <<>> /\ reqs[1].st = "err") =>
    /\ Len(waits) = (IF pc = "wait" THEN calls ELSE calls - 1)
    /\ Len(waits) <= args.n
    /\ waits = SubSeq(ExpectedWaits(args.n, args.d), 1, Len(waits))
    /\ pc = "done" =>
         /\ waits = ExpectedWaits(args.n, args.d)
         /\ calls = args.n + 1
         /\ timer = NoTimer

\* three retries from 500 ms: waits of 500, 1000 and 1000 ms, then the error
C20_Witness ==
  /\ flow = "delay" /\ pc = "done"
  /\ args = [n |-> 3, d |-> 500]
  /\ waits = <<500, 1000, 1000>>
  /\ results = <<Failure(1, "RpcError")>>

\* the recursion of the retry functions: invocation number `calls` runs
\* with the counter the caller passed less one per recursive call, which
\* never goes below 0; a rejection leaves from the base case only
RetryCounter ==
  calls >= 1 =>
    /\ retriesLeft = args.n - (calls - 1)
    /\ retriesLeft >= 0
    /\ calls <= args.n + 1
    /\ (pc = "done" /\ results[1].kind = "Failure") => retriesLeft = 0

\* C21: for every retriesLeft >= 0 and every request that settles,
\* retryRPCPromise and retryRPCPromiseWithDelay terminate: the counter goes
\* down by one on every recursive call, at most retriesLeft + 1 invocations
\* are made, a rejection comes from the base case retriesLeft = 0, and the
\* call completes once the request has settled.
C21_RetryRecursionTerminates ==
  /\ [](RetryCounter)
  /\ []((reqs # <<>> /\ health[reqs[1].to] # "hung") => <>(pc = "done"))

\* the deepest recursion: MaxRetries retries, all of them used
C21_Witness ==
  /\ flow \in RecursiveRetryFlows /\ pc = "done"
  /\ args.n = MaxRetries
  /\ calls = MaxRetries + 1 /\ retriesLeft = 0
  /\ results = <<Failure(1, "RpcError")>>

\* C22: initProvider leaves its loop as soon as an endpoint answers
\* getBlockNumber successfully, whatever the block number (0 included), with
\* the provider bound to that endpoint: once an answer has been handled no
\* further request is made and the caller holds that endpoint's provider
\* (stated here for the answers of listed endpoints).
C22_ExitsOnFirstAnswer ==
  (flow = "init" /\ jobs = <<>>) =>
    \A k \in DOMAIN reqs :
      (reqs[k].st = "ok" /\ reqs[k].idx < Len(endpoints)) =>
        /\ pc = "done"
        /\ k = Len(reqs)
        /\ results = <<Success(k, reqs[k].to)>>

\* C23: in the main-then-backup example the backup provider is asked for a
\* logical request exactly when the main provider's request for it has
\* failed, so a logical request causes at most two requests, the main
\* provider's first; when the backup's request fails too, main ends in its
\* outer catch and issues no request for the logical requests that remain.
C23_BackupOnlyAfterMainFails ==
  flow = "backup" =>
    \A lg \in 1..LastLogical :
      LET rs == ReqsOf(lg)
          m == FirstReqOf(lg)
      IN  /\ Cardinality(rs) <= 2
          /\ rs # {} =>
               /\ reqs[m].to = MainProviderFor(lg)
               /\ Cardinality(rs) = 2 =>
                    (reqs[m].st = "err" /\ reqs[m + 1].to = backupProvider)
               /\ (reqs[m].st = "err" /\ jobs = <<>>) => Cardinality(rs) = 2
               /\ (reqs[m].st = "ok" /\ jobs = <<>>) => Delivered(lg)
               /\ (Cardinality(rs) = 2 /\ reqs[m + 1].st = "err" /\ jobs = <<>>) =>
                    /\ pc = "done"
                    /\ results[Len(results)] = Failure(m + 1, "RpcError")
                    /\ \A later \in (lg + 1)..LastLogical : ReqsOf(later) = {}

\* res2: the bad endpoint failed, the backup failed too; nothing was asked
\* for res3
C23_Witness ==
  /\ flow = "backup" /\ pc = "done"
  /\ Len(results) = 2 /\ results[1].kind = "Success"
  /\ results[2].kind = "Failure"
  /\ Cardinality(ReqsOf(2)) = 2
  /\ ReqsOf(3) = {}

\* the logical requests main has started so far
Started == {lg \in 1..LastLogical : ReqsOf(lg) # {}}

\* C24: in the Promise.any and Promise.all examples every logical request
\* causes exactly one request per provider, both issued together before
\* main awaits anything of that logical request, whichever of them succeed
\* or fail: the requests issued are always two per logical request started.
C24_OneRequestPerEndpoint ==
  flow \in {"any", "all"} =>
    /\ pc # "start" => Started # {}
    /\ Len(reqs) = Len(Providers) * Cardinality(Started)
    /\ \A lg \in Started :
         LET m == FirstReqOf(lg)
         IN  /\ ReqsOf(lg) = {m, m + 1}
             /\ reqs[m].to = MainProviderFor(lg)
             /\ reqs[m + 1].to = backupProvider
             /\ (flow = "all" /\ lg > 1) => Delivered(lg - 1)

\* promiseAll.js has run to its end: six requests, the one to the bad
\* endpoint failed
C24_Witness ==
  /\ flow = "all" /\ pc = "done"
  /\ Len(reqs) = 6
  /\ reqs[3].to = BAD_RPC /\ reqs[3].st = "err"
  /\ \E k \in DOMAIN reqs : reqs[k].st = "ok"

\* the requests that have settled
Settled == {r \in DOMAIN reqs : reqs[r].st # "pending"}

\* C25: wrapRPCPromise and wrapRPCPromiseWithReject agree on a fulfilled
\* request, both giving {result, origin} with the request's value and the
\* origin passed; on a rejected request wrapRPCPromise fulfils with the
\* generic Error value, which keeps nothing of the request's error, and
\* wrapRPCPromiseWithReject rejects with the request's error.
C25_WrappersDifferOnFailureOnly ==
  \A r \in Settled, origin \in URLs :
    LET a == WrapRPCPromise(r, origin)
        b == WrapRPCPromiseWithReject(r, origin)
    IN  /\ reqs[r].st = "ok" =>
             /\ a = b
             /\ a.st = "fulfilled"
             /\ Outcome(a) = Success(r, origin)
        /\ reqs[r].st = "err" =>
             /\ a.st = "fulfilled" /\ Outcome(a) = ErrorValue
             /\ a.req = 0 /\ a.error = OpsError
             /\ b.st = "rejected" /\ Outcome(b) = Failure(r, "RpcError")
        /\ (flow \in {"race", "all"} /\ r \in DOMAIN wrapped
              /\ wrapped[r].st # "pending") => wrapped[r] = WrapRPCPromise(r, reqs[r].to)
        /\ (flow = "any" /\ r \in DOMAIN wrapped /\ wrapped[r].st # "pending") =>
             wrapped[r] = WrapRPCPromiseWithReject(r, reqs[r].to)

\* Promise.any's wrappers after one request failed and one succeeded
C25_Witness ==
  /\ flow = "any" /\ Len(reqs) = 2
  /\ reqs[1].st = "err" /\ wrapped[1].st = "rejected"
  /\ reqs[2].st = "ok" /\ wrapped[2].st = "fulfilled"
  /\ WrapRPCPromise(1, reqs[1].to).st = "fulfilled"
=============================================================================
